---- MODULE Spec2Model ----
(***************************************************************************)
(* Model of drivers/virtio/virtio_balloon.c: the balloon ledger            *)
(* (fill_balloon / leak_balloon), the run-length (bitmap / chunk) and the  *)
(* legacy pfn-array encodings, the virtqueue acknowledgment discipline and *)
(* the page-migration swap (virtballoon_migratepage).                      *)
(*                                                                         *)
(* Threads: "worker" runs update_balloon_size_func, "oom" runs             *)
(* virtballoon_oom_notify, "compact" is a compaction thread that isolates  *)
(* a balloon page and calls virtballoon_migratepage.  The host, the page   *)
(* allocator and the transport are the environment.                        *)
(*                                                                         *)
(* A handler is cut into steps only where the code can block (mutex_lock,  *)
(* wait_event, cancel_work_sync) or where it reads or writes state that     *)
(* another thread writes without a common lock (pfn_min / pfn_max,         *)
(* num_pages, the queued state of the size work).                          *)
(***************************************************************************)
EXTENDS Integers, Sequences, FiniteSets, TLC

(***************************************************************************)
(* Program constants, scaled down so that the state space is finite and    *)
(* small.  The relations between them are the source's.                    *)
(***************************************************************************)
BITS_PER_BYTE == 2
BITS_PER_LONG == 2
PAGE_BMAP_SIZE == 2
PFNS_PER_PAGE_BMAP == PAGE_BMAP_SIZE * BITS_PER_BYTE
PAGE_BMAP_COUNT_MAX == 2
MAX_PAGE_CHUNKS == 3
VIRTIO_BALLOON_ARRAY_PFNS_MAX == 4
OOM_VBALLOON_DEFAULT_PAGES == 4
ULONG_MAX == 63
MAX_ORDER == 3
VIRTIO_BALLOON_MISCQ_F_COMPLETE == 1

(***************************************************************************)
(* Bounds of the model.                                                    *)
(***************************************************************************)
\* page-frame numbers of the allocator pages the balloon can ever obtain
NumPfns == 2
\* page-frame numbers of the batches encoded under EncSpec
NumEncPfns == 6
\* largest number of pages in the ledger at the start of EncSpec
MaxEncPages == 3
\* largest target (in balloon pages) the host writes to the config space
MaxTarget == 2
\* descriptors add_one_chunk may write past the end of the chunk buffer
MaxOverrun == 1
\* page-frame numbers of the pages under SwapSpec
NumSwapPfns == 3
\* page-frame numbers of the allocator pages under GrowSpec
NumGrowPfns == 4
\* page-frame numbers of the allocator pages under TargetSpec
NumTargetPfns == 3
\* largest number of pages in the ledger at the start of TargetSpec
MaxTargetHeld == 1
\* free blocks of each order the allocator's free lists can hold
NumBlocksPerOrder == 2

PFNS == 0 .. (NumPfns - 1)
ENC_PFNS == 0 .. (NumEncPfns - 1)
SWAP_PFNS == 0 .. (NumSwapPfns - 1)
TARGET_PFNS == 0 .. (NumTargetPfns - 1)
GROW_PFNS == 0 .. (NumGrowPfns - 1)
\* targets of GrowSpec: up to twice the capacity of the pfn array
GROW_TARGETS == {0, 2 * VIRTIO_BALLOON_ARRAY_PFNS_MAX}
\* VIRTIO_BALLOON_PAGES_PER_PAGE is PAGE_SIZE >> 12: 1 with 4K pages,
\* 2 with 8K pages.
PagesPerPageValues == {1, 2}

Threads == {"worker", "oom", "compact", "stats", "misc", "remove"}
Queues == {"inflate", "deflate"}
NoPage == -1
NoThread == "none"
\* the content of memory that kmalloc returned and nobody has written
Uninitialized == -1

VARIABLES
    K,                  \* VIRTIO_BALLOON_PAGES_PER_PAGE of the build
    chunking,           \* VIRTIO_BALLOON_F_BALLOON_CHUNKS negotiated
    deflate_on_oom,     \* VIRTIO_BALLOON_F_DEFLATE_ON_OOM negotiated
    free,               \* pages the allocator can hand out
    pages,              \* vb_dev_info.pages: the ledger's page list
    isolated_pages,     \* vb_dev_info.isolated_pages
    num_pages,          \* vb->num_pages
    balloon_lock,       \* owner of vb->balloon_lock, or NoThread
    pfn_min, pfn_max,   \* vb->pfn_min, vb->pfn_max
    page_bmaps,         \* vb->page_bmaps
    num_pfns, pfns,     \* vb->num_pfns, vb->pfns[0 .. num_pfns)
    balloon_page_chunk, \* vb->balloon_page_chunk[0 .. hdr->chunks)
    vq_avail, vq_used,  \* per virtqueue: buffers submitted / returned
    broken,             \* the transport is broken
    host_set,           \* balloon pfns the host believes surrendered
    target, actual,     \* config space: num_pages (host), actual (guest)
    size_work,          \* update_balloon_size_work is queued
    stop_update,        \* vb->stop_update
    pc, loc,            \* per thread: position and local variables
    sent,               \* buffers acknowledged since balloon_lock was taken
    stats_vq, miscq,    \* vb->stats_vq, vb->miscq: [avail, used]
    stats_work,         \* update_balloon_stats_work is queued
    miscq_out_hdr,      \* vb->miscq_out_hdr: [cmd, flags]
    unused_page_chunk,  \* vb->unused_page_chunk[0 .. hdr->chunks)
    acked,              \* threads asleep on the wait queue vb->acked
    response            \* buffers submitted by the inquiry being answered

vars == <<K, chunking, deflate_on_oom, free, pages, isolated_pages, num_pages,
          balloon_lock, pfn_min, pfn_max, page_bmaps, num_pfns, pfns,
          balloon_page_chunk, vq_avail, vq_used, broken, host_set, target,
          actual, size_work, stop_update, pc, loc, sent, stats_vq, miscq,
          stats_work, miscq_out_hdr, unused_page_chunk, acked, response>>

----
(* Arithmetic helpers of the kernel.                                       *)

Min(a, b) == IF a < b THEN a ELSE b
Max(a, b) == IF a > b THEN a ELSE b
\* unsigned long arithmetic
Wrap(x) == x % (ULONG_MAX + 1)
rounddown(x, y) == x - (x % y)
roundup(x, y) == ((x + (y - 1)) \div y) * y
ALIGN(x, a) == ((x + (a - 1)) \div a) * a

page_to_pfn(page) == page
page_to_balloon_pfn(page) == page_to_pfn(page) * K

RECURSIVE SeqOfSet(_)
SeqOfSet(S) ==
    IF S = {} THEN <<>>
    ELSE LET m == CHOOSE x \in S : \A y \in S : x <= y
         IN <<m>> \o SeqOfSet(S \ {m})

RECURSIVE Flatten(_)
Flatten(ss) == IF ss = <<>> THEN <<>> ELSE Head(ss) \o Flatten(Tail(ss))

\* A chunk descriptor: base and size before the wire shifts; q is the queue
\* the descriptor was recorded for and pair the replacement page of the
\* migration whose old page the descriptor reports (neither is on the wire).
Chunk(base, size, q, pair) == [base |-> base, size |-> size, q |-> q, pair |-> pair]
ChunkPfns(c) == c.base .. (c.base + c.size - 1)
BodyPfns(body) == UNION {ChunkPfns(body[i]) : i \in 1 .. Len(body)}

----
(* The run-length encoder.                                                 *)

\* find_next_bit / find_next_zero_bit over the bit set bmap
find_next_bit(bmap, end, pos) ==
    LET S == {b \in bmap : b >= pos /\ b < end}
    IN IF S = {} THEN end ELSE CHOOSE b \in S : \A c \in S : b <= c
find_next_zero_bit(bmap, end, pos) ==
    LET S == {b \in pos .. (end - 1) : b \notin bmap}
    IN IF S = {} THEN end ELSE CHOOSE b \in S : \A c \in S : b <= c

\* chunking_pages_from_bmap: the (base, size) pairs handed to add_one_chunk,
\* in the order of the calls; len is in bytes.
RECURSIVE ChunkScan(_, _, _, _, _)
ChunkScan(start, bmap, end, pos, q) ==
    IF ~(pos < end) THEN <<>>
    ELSE LET one == find_next_bit(bmap, end, pos)
         IN IF one < end
            THEN LET zero == find_next_zero_bit(bmap, end, one + 1)
                     chunk_size == IF zero >= end THEN end - one ELSE zero - one
                 IN (IF chunk_size # 0
                     THEN <<Chunk(start + one, chunk_size, q, NoPage)>>
                     ELSE <<>>)
                    \o ChunkScan(start, bmap, end, one + chunk_size, q)
            ELSE <<>>
chunking_pages_from_bmap(start, bmap, len, q) ==
    ChunkScan(start, bmap, len * BITS_PER_BYTE, 0, q)

\* tell_host, chunk branch: the number of bitmaps it scans for the span
\* [start, stop], and the descriptors it hands to add_one_chunk; bmaps[i] is
\* the content of vb->page_bmap[i].
TellHostBmaps(start, stop) ==
    roundup(roundup(stop - start + 1, BITS_PER_LONG), PFNS_PER_PAGE_BMAP)
        \div PFNS_PER_PAGE_BMAP
TellHostChunks(start, stop, bmaps, q) ==
    LET n == TellHostBmaps(start, stop)
        pfns_len == (n * PFNS_PER_PAGE_BMAP) \div BITS_PER_BYTE
        bmap_len(i) == IF i + 1 = n THEN pfns_len - PAGE_BMAP_SIZE * i
                       ELSE PAGE_BMAP_SIZE
    IN Flatten([j \in 1 .. n |->
                 chunking_pages_from_bmap(start + (j - 1) * PFNS_PER_PAGE_BMAP,
                                          bmaps[j - 1], bmap_len(j - 1), q)])

\* set_page_bmap, inner loop: the pages of the list that fall in the pass,
\* and the bits they set in vb->page_bmap[i]
PassPages(list, start, stop) ==
    {p \in list : ~(page_to_balloon_pfn(p) < start \/ page_to_balloon_pfn(p) > stop)}
bmap_idx(p, start) == (page_to_balloon_pfn(p) - start) \div PFNS_PER_PAGE_BMAP
bmap_pos(p, start) == (page_to_balloon_pfn(p) - start) % PFNS_PER_PAGE_BMAP
PassBits(list, start, stop, i) ==
    {bmap_pos(p, start) : p \in {x \in PassPages(list, start, stop) : bmap_idx(x, start) = i}}

\* extend_page_bmap_size: the number of bitmaps it tries to have
ExtendBmaps(npfns) ==
    LET bmap_len == ALIGN(ALIGN(npfns, BITS_PER_LONG) \div BITS_PER_BYTE, PAGE_BMAP_SIZE)
    IN Min(bmap_len \div PAGE_BMAP_SIZE, PAGE_BMAP_COUNT_MAX)

\* set_page_pfns: the balloon pfns of one page, and of a set of pages
page_pfns(page) == [i \in 1 .. K |-> page_to_balloon_pfn(page) + (i - 1)]
set_page_pfns(B) == Flatten([j \in 1 .. Cardinality(B) |-> page_pfns(SeqOfSet(B)[j])])

\* update_page_bmap_range over the pages of a batch
RangeMin(B, m) == IF B = {} THEN m
                  ELSE Min(m, CHOOSE x \in {page_to_balloon_pfn(p) : p \in B} :
                                \A p \in B : x <= page_to_balloon_pfn(p))
RangeMax(B, m) == IF B = {} THEN m
                  ELSE Max(m, CHOOSE x \in {page_to_balloon_pfn(p) : p \in B} :
                                \A p \in B : x >= page_to_balloon_pfn(p))

----
(* State after virtballoon_probe.                                          *)

\* the local variables of a thread that is in no handler
LocIdle == [num |-> 0, diff |-> 0, ret |-> 0, batch |-> {}, list |-> "none",
            vq |-> "none", start |-> 0, todo |-> <<>>, flush |-> FALSE,
            after |-> "none", cont |-> "none", page |-> NoPage,
            newpage |-> NoPage, wins |-> 0, npass |-> 0]

Buffer(fmt, body) == [fmt |-> fmt, body |-> body]
\* The buffer the driver posts for the host's commands on the misc queue
miscq_in_hdr == Buffer("in_hdr", <<>>)
PfnsBody(ps, q, pair) == [i \in 1 .. Len(ps) |-> Chunk(ps[i], 1, q, pair)]

InitDevice(k, chunks, oom, held, avail) ==
    /\ K = k
    /\ chunking = chunks
    /\ deflate_on_oom = oom
    /\ free = avail
    /\ pages = held
    /\ isolated_pages = 0
    /\ num_pages = k * Cardinality(held)
    /\ balloon_lock = NoThread
    /\ pfn_min = ULONG_MAX
    /\ pfn_max = 0
    /\ page_bmaps = IF chunks THEN 1 ELSE 0
    /\ num_pfns = 0
    /\ pfns = <<>>
    /\ balloon_page_chunk = <<>>
    /\ vq_avail = [q \in Queues |-> <<>>]
    /\ vq_used = [q \in Queues |-> <<>>]
    /\ broken = FALSE
    /\ host_set = UNION {{k * p + i : i \in 0 .. (k - 1)} : p \in held}
    /\ actual = k * Cardinality(held)
    /\ stop_update = FALSE
    /\ pc = [t \in Threads |-> "idle"]
    /\ loc = [t \in Threads |-> LocIdle]
    /\ sent = <<>>
    /\ stats_vq = [avail |-> <<Buffer("stats", <<>>)>>, used |-> <<>>]
    /\ miscq = [avail |-> <<miscq_in_hdr>>, used |-> <<>>]
    /\ stats_work = FALSE
    /\ miscq_out_hdr = [cmd |-> Uninitialized, flags |-> Uninitialized]
    /\ unused_page_chunk = <<>>
    /\ acked = {}
    /\ response = <<>>

\* virtballoon_probe: an empty balloon; the host has asked for nothing yet.
Init ==
    /\ \E k \in PagesPerPageValues, chunks \in BOOLEAN, oom \in BOOLEAN :
          InitDevice(k, chunks, oom, {}, PFNS)
    /\ target = 0
    /\ size_work = FALSE

features == <<K, chunking, deflate_on_oom, stop_update>>
config == <<target, actual, size_work>>
ledger == <<free, pages, isolated_pages, num_pages>>
range == <<pfn_min, pfn_max>>
array == <<num_pfns, pfns>>
transport == <<vq_avail, vq_used, broken, host_set>>
sidechannel == <<stats_vq, miscq, stats_work, miscq_out_hdr, unused_page_chunk,
                 acked, response>>

----
(* The environment: host, transport.                                       *)

\* The host writes a new target to the config space and raises the
\* config-changed interrupt: virtballoon_changed.
ConfigChanged(targets) ==
    /\ \E v \in targets : v # target /\ target' = v
    /\ size_work' = IF ~stop_update THEN TRUE ELSE size_work
    /\ UNCHANGED <<features, sidechannel, ledger, balloon_lock, range, page_bmaps, array,
                   balloon_page_chunk, transport, actual, pc, loc, sent>>
virtballoon_changed == ConfigChanged(0 .. MaxTarget)

\* What a buffer on queue q tells the host.
HostApply(q, buf, set) ==
    IF q = "inflate" THEN set \cup BodyPfns(buf.body) ELSE set \ BodyPfns(buf.body)

\* The host consumes the oldest buffer of queue q and returns it
\* (balloon_ack wakes the waiter).
HostAck(q) ==
    /\ ~broken
    /\ vq_avail[q] # <<>>
    /\ host_set' = HostApply(q, Head(vq_avail[q]), host_set)
    /\ vq_avail' = [vq_avail EXCEPT ![q] = Tail(@)]
    /\ vq_used' = [vq_used EXCEPT ![q] = Append(@, Head(vq_avail[q]))]
    /\ UNCHANGED <<features, sidechannel, config, ledger, balloon_lock, range, page_bmaps,
                   array, balloon_page_chunk, broken, pc, loc, sent>>

\* The transport breaks: from now on virtqueue_add_outbuf fails and
\* virtqueue_get_buf returns nothing.
TransportBreak ==
    /\ ~broken
    /\ broken' = TRUE
    /\ UNCHANGED <<features, sidechannel, config, ledger, balloon_lock, range, page_bmaps,
                   array, balloon_page_chunk, vq_avail, vq_used, host_set, pc,
                   loc, sent>>

\* virtqueue_add_outbuf + virtqueue_kick: the queue after the call.
virtqueue_add_outbuf(q, buf) ==
    IF broken THEN vq_avail ELSE [vq_avail EXCEPT ![q] = Append(@, buf)]

----
(* fill_balloon and leak_balloon.                                          *)

Goto(t, label) == [pc EXCEPT ![t] = label]

\* mutex_trylock succeeds, and mutex_lock returns, when nobody owns the mutex
mutex_always_free(lock) == TRUE
mutex_trylock(lock) == lock = NoThread

\* fill_balloon up to mutex_lock: init_page_bmap_range, or the clamp of num
\* to the pfn array.
FillEntryNoClamp(t, num, diff) ==
    /\ pfn_min' = IF chunking THEN ULONG_MAX ELSE pfn_min
    /\ pfn_max' = IF chunking THEN 0 ELSE pfn_max
    /\ loc' = [loc EXCEPT ![t] = [LocIdle EXCEPT !.num = num, !.diff = diff]]
    /\ pc' = Goto(t, "fill_lock")
FillEntry(t, num, diff) ==
    /\ pfn_min' = IF chunking THEN ULONG_MAX ELSE pfn_min
    /\ pfn_max' = IF chunking THEN 0 ELSE pfn_max
    /\ loc' = [loc EXCEPT ![t] = [LocIdle EXCEPT
                 !.num = IF chunking THEN num
                         ELSE Min(num, VIRTIO_BALLOON_ARRAY_PFNS_MAX),
                 !.diff = diff]]
    /\ pc' = Goto(t, "fill_lock")

\* leak_balloon up to mutex_lock: init_page_bmap_range and the clamp of num
\* to the pfn array (which the code applies with and without chunking).
LeakEntry(t, num, diff) ==
    /\ pfn_min' = IF chunking THEN ULONG_MAX ELSE pfn_min
    /\ pfn_max' = IF chunking THEN 0 ELSE pfn_max
    /\ loc' = [loc EXCEPT ![t] = [LocIdle EXCEPT
                 !.num = Min(num, VIRTIO_BALLOON_ARRAY_PFNS_MAX),
                 !.diff = diff]]
    /\ pc' = Goto(t, "leak_lock")

\* The number of times a loop "for (n = 0; n < num; n += K)" runs.
LoopCount(num) == (num + (K - 1)) \div K

\* fill_balloon's accounting of the pages B it obtained
FillCountPerPage(B) == num_pages + Cardinality(B)
FillCount(B) == num_pages + K * Cardinality(B)
\* leak_balloon's accounting of the pages B it dequeued
LeakCount(B) == num_pages - K * Cardinality(B)

\* After the allocation / dequeue loop: "if (vb->num_pfns != 0)" tell the
\* host about the batch B on queue q, by set_page_bmap over the list or by
\* tell_host over vb->pfns; done is where the caller goes on afterwards.
TellBatch(t, B, q, list, done) ==
    /\ num_pfns' = K * Cardinality(B)
    /\ pfn_min' = IF chunking THEN RangeMin(B, pfn_min) ELSE pfn_min
    /\ pfn_max' = IF chunking THEN RangeMax(B, pfn_max) ELSE pfn_max
    /\ IF B = {}
       THEN /\ pc' = Goto(t, done)
            /\ pfns' = pfns
            /\ vq_avail' = vq_avail
            /\ loc' = [loc EXCEPT ![t] = [@ EXCEPT !.batch = B, !.ret = 0]]
       ELSE IF chunking
       THEN /\ pc' = Goto(t, "bmap")
            /\ pfns' = IF q = "deflate" THEN set_page_pfns(B) ELSE pfns
            /\ vq_avail' = vq_avail
            /\ loc' = [loc EXCEPT ![t] = [@ EXCEPT !.batch = B,
                         !.ret = K * Cardinality(B), !.list = list,
                         !.vq = q, !.cont = done]]
       ELSE /\ pc' = Goto(t, "legacy_wait")
            /\ pfns' = set_page_pfns(B)
            /\ vq_avail' = virtqueue_add_outbuf(q,
                              Buffer("pfns", PfnsBody(set_page_pfns(B), q, NoPage)))
            /\ loc' = [loc EXCEPT ![t] = [@ EXCEPT !.batch = B,
                         !.ret = K * Cardinality(B), !.vq = q, !.after = done]]

\* fill_balloon from mutex_lock to the call of set_page_bmap / tell_host: the
\* allocation loop.  balloon_page_enqueue hands out any free page, or none.
FillLock(t) ==
    /\ pc[t] = "fill_lock"
    /\ mutex_trylock(balloon_lock)
    /\ balloon_lock' = t
    /\ \E B \in SUBSET free :
          /\ Cardinality(B) <= LoopCount(loc[t].num)
          /\ free' = free \ B
          /\ pages' = pages \cup B
          /\ num_pages' = FillCount(B)
          /\ TellBatch(t, B, "inflate", "ledger", "fill_unlock")
    /\ UNCHANGED <<features, sidechannel, config, isolated_pages, page_bmaps,
                   balloon_page_chunk, vq_used, broken, host_set, sent>>

\* leak_balloon from mutex_lock to the call of set_page_bmap / tell_host: the
\* dequeue loop.  balloon_page_dequeue hands out any page of the list, and
\* nothing once the list is empty.
LeakLock(t) ==
    /\ pc[t] = "leak_lock"
    /\ mutex_trylock(balloon_lock)
    /\ balloon_lock' = t
    /\ \E B \in SUBSET pages :
          /\ Cardinality(B) =
                Min(LoopCount(Min(loc[t].num, num_pages)), Cardinality(pages))
          /\ pages' = pages \ B
          /\ num_pages' = LeakCount(B)
          /\ TellBatch(t, B, "deflate", "batch", "release")
    /\ UNCHANGED <<features, sidechannel, config, free, isolated_pages, page_bmaps,
                   balloon_page_chunk, vq_used, broken, host_set, sent>>

\* The end of a critical section: what mutex_unlock leaves behind.  vb->pfns
\* and vb->num_pfns are written afresh by every holder of the lock before it
\* reads them, so their content is not kept across the unlock.
Unlock ==
    /\ balloon_lock' = NoThread
    /\ num_pfns' = 0
    /\ pfns' = <<>>
    /\ sent' = <<>>

\* fill_balloon: mutex_unlock and return num_allocated_pages
FillUnlock(t) ==
    /\ pc[t] = "fill_unlock"
    /\ Unlock
    /\ pc' = Goto(t, "filled")
    /\ UNCHANGED <<features, sidechannel, config, ledger, range, page_bmaps,
                   balloon_page_chunk, transport, loc>>

\* release_pages_balloon: the pages of the batch go back to the allocator
release_pages_balloon(B) == free \cup B

\* leak_balloon: release_pages_balloon, mutex_unlock, return num_freed_pages
LeakRelease(t) ==
    /\ pc[t] = "release"
    /\ free' = release_pages_balloon(loc[t].batch)
    /\ Unlock
    /\ pc' = Goto(t, "leaked")
    /\ UNCHANGED <<features, sidechannel, config, pages, isolated_pages, num_pages, range,
                   page_bmaps, balloon_page_chunk, transport, loc>>

----
(* set_page_bmap, tell_host, add_one_chunk, send_page_chunks.              *)

\* extend_page_bmap_size: kmalloc may fail at any i, which ends the loop.
extend_page_bmap_size(npfns) ==
    {page_bmaps + j : j \in 0 .. Max(ExtendBmaps(npfns) - 1, 0)}

\* set_page_bmap returning with the bitmaps it added still allocated
keep_extended_page_bmap == page_bmaps
\* free_extended_page_bmap
free_extended_page_bmap == IF page_bmaps > 1 THEN 1 ELSE page_bmaps

\* set_page_bmap up to its while loop: align the range, size the bitmaps.
SetPageBmap(t) ==
    /\ pc[t] = "bmap"
    /\ pfn_min' = rounddown(pfn_min, BITS_PER_LONG)
    /\ pfn_max' = Wrap(roundup(pfn_max, BITS_PER_LONG))
    /\ page_bmaps' \in extend_page_bmap_size(Wrap(pfn_max' + (ULONG_MAX + 1) - pfn_min' + 1))
    /\ loc' = [loc EXCEPT ![t] = [@ EXCEPT !.start = pfn_min',
                                            !.wins = page_bmaps', !.npass = 0]]
    /\ pc' = Goto(t, "pass")
    /\ UNCHANGED <<features, sidechannel, config, ledger, balloon_lock, array,
                   balloon_page_chunk, transport, sent>>

\* The stop bound of the pass that starts at start.
PassStop(start) ==
    LET pfn_stop == start + PFNS_PER_PAGE_BMAP * page_bmaps
    IN IF pfn_stop < pfn_max THEN pfn_stop ELSE pfn_max

\* The list set_page_bmap walks: the ledger (fill_balloon passes
\* &vb_dev_info->pages) or the pages of the batch (leak_balloon).
ListOf(t) == IF loc[t].list = "ledger" THEN pages ELSE loc[t].batch

\* Whether the pass uses a bitmap index that is not below vb->page_bmaps:
\* set_bit for a page of the pass, or the scan of tell_host.
PassOutOfBounds(list, start, stop) ==
    \/ \E p \in PassPages(list, start, stop) : bmap_idx(p, start) >= page_bmaps
    \/ TellHostBmaps(start, stop) > page_bmaps

\* One turn of set_page_bmap's while loop, up to the first add_one_chunk of
\* tell_host; after the loop, free_extended_page_bmap and return.  Reading
\* or writing vb->page_bmap[i] for i >= vb->page_bmaps is an access outside
\* the allocated bitmaps: it faults (the thread dies holding the lock) or it
\* sees arbitrary bits.
Pass(t) ==
    /\ pc[t] = "pass"
    /\ LET start == loc[t].start
           stop == PassStop(start)
           list == ListOf(t)
       IN IF ~(start < pfn_max)
          THEN /\ page_bmaps' = free_extended_page_bmap
               /\ pc' = Goto(t, loc[t].cont)
               /\ loc' = loc
          ELSE IF PassPages(list, start, stop) = {}
          THEN /\ page_bmaps' = page_bmaps
               /\ pc' = pc
               /\ loc' = [loc EXCEPT ![t] = [@ EXCEPT !.start = stop,
                                                       !.npass = @ + 1]]
          ELSE \E fault \in BOOLEAN, garbage \in SUBSET (0 .. (PFNS_PER_PAGE_BMAP - 1)) :
               /\ PassOutOfBounds(list, start, stop) \/ (~fault /\ garbage = {})
               /\ page_bmaps' = page_bmaps
               /\ LET bmaps == [i \in 0 .. (TellHostBmaps(start, stop) - 1) |->
                                  IF i < page_bmaps
                                  THEN PassBits(list, start, stop, i)
                                  ELSE garbage]
                  IN IF fault
                     THEN /\ pc' = Goto(t, "oops")
                          /\ loc' = loc
                     ELSE /\ pc' = Goto(t, "emit")
                          /\ loc' = [loc EXCEPT ![t] = [@ EXCEPT
                                      !.start = stop, !.npass = @ + 1,
                                      !.todo = TellHostChunks(start, stop, bmaps, loc[t].vq),
                                      !.flush = TRUE, !.after = "pass"]]
    /\ UNCHANGED <<features, sidechannel, config, ledger, balloon_lock, range, array,
                   balloon_page_chunk, transport, sent>>

\* send_page_chunks(PAGE_CHUNK_TYPE_BALLOON) up to the wait: the buffer
\* holds hdr->chunks descriptors.
send_page_chunks(q, chunks) == virtqueue_add_outbuf(q, Buffer("chunks", chunks))

\* add_one_chunk: write the descriptor at index hdr->chunks, count it, and
\* at MAX_PAGE_CHUNKS call send_page_chunks.  When virtqueue_add_outbuf
\* fails, send_page_chunks returns with hdr->chunks as it was.
AddOneChunk(t) ==
    /\ pc[t] = "emit"
    /\ loc[t].todo # <<>>
    /\ Len(balloon_page_chunk) < MAX_PAGE_CHUNKS + MaxOverrun
    /\ balloon_page_chunk' = Append(balloon_page_chunk, Head(loc[t].todo))
    /\ loc' = [loc EXCEPT ![t] = [@ EXCEPT !.todo = Tail(@)]]
    /\ IF Len(balloon_page_chunk') = MAX_PAGE_CHUNKS
       THEN /\ vq_avail' = send_page_chunks(loc[t].vq, balloon_page_chunk')
            /\ pc' = IF broken THEN pc ELSE Goto(t, "cap_wait")
       ELSE /\ vq_avail' = vq_avail
            /\ pc' = pc
    /\ UNCHANGED <<features, sidechannel, config, ledger, balloon_lock, range, page_bmaps,
                   array, vq_used, broken, host_set, sent>>

\* tell_host after its scan: "if (hdr->chunks > 0) send_page_chunks"; and
\* tell_host_one_page, which returns after add_one_chunk.
TellHostEnd(t) ==
    /\ pc[t] = "emit"
    /\ loc[t].todo = <<>>
    /\ IF loc[t].flush /\ Len(balloon_page_chunk) > 0
       THEN /\ vq_avail' = send_page_chunks(loc[t].vq, balloon_page_chunk)
            /\ pc' = Goto(t, IF broken THEN loc[t].after ELSE "final_wait")
       ELSE /\ vq_avail' = vq_avail
            /\ pc' = Goto(t, loc[t].after)
    /\ UNCHANGED <<features, sidechannel, config, ledger, balloon_lock, range, page_bmaps,
                   array, balloon_page_chunk, vq_used, broken, host_set, loc,
                   sent>>

\* wait_event(vb->acked, virtqueue_get_buf(vq, &len)) returns: the buffer
\* has come back.  send_page_chunks then sets hdr->chunks = 0.
WaitAcked(t) ==
    /\ pc[t] \in {"cap_wait", "final_wait", "legacy_wait"}
    /\ ~broken
    /\ vq_used[loc[t].vq] # <<>>
    /\ vq_used' = [vq_used EXCEPT ![loc[t].vq] = Tail(@)]
    /\ sent' = Append(sent, [q |-> loc[t].vq, body |-> Head(vq_used[loc[t].vq]).body])
    /\ balloon_page_chunk' = IF pc[t] = "legacy_wait" THEN balloon_page_chunk ELSE <<>>
    /\ pc' = Goto(t, IF pc[t] = "cap_wait" THEN "emit" ELSE loc[t].after)
    /\ UNCHANGED <<features, sidechannel, config, ledger, balloon_lock, range, page_bmaps,
                   array, vq_avail, broken, host_set, loc>>

----
(* The size worker and the OOM notifier.                                   *)

towards_target == target - num_pages

\* update_balloon_size, first statement: "u32 actual = vb->num_pages"
update_balloon_size == num_pages

\* update_balloon_size_func up to the mutex_lock of fill_balloon or
\* leak_balloon; with diff = 0, the whole function.
UpdateBalloonSizeFunc ==
    /\ pc["worker"] = "idle"
    /\ size_work
    /\ LET diff == towards_target
       IN IF diff > 0
          THEN /\ FillEntry("worker", diff, diff)
               /\ UNCHANGED <<actual>>
               /\ size_work' = FALSE
          ELSE IF diff < 0
          THEN /\ LeakEntry("worker", -diff, diff)
               /\ UNCHANGED <<actual>>
               /\ size_work' = FALSE
          ELSE /\ loc' = [loc EXCEPT !["worker"] =
                             [LocIdle EXCEPT !.num = update_balloon_size]]
               /\ pc' = Goto("worker", "cwrite")
               /\ size_work' = FALSE
               /\ UNCHANGED <<range, actual>>
    /\ UNCHANGED <<features, sidechannel, target, ledger, balloon_lock, page_bmaps, array,
                   balloon_page_chunk, transport, sent>>

\* update_balloon_size_func after fill_balloon / leak_balloon returned:
\* diff -= / += the result, and update_balloon_size up to virtio_cwrite.
\* update_balloon_size reads vb->num_pages without balloon_lock.
UpdateBalloonSizeDone ==
    /\ pc["worker"] \in {"filled", "leaked"}
    /\ LET diff == IF pc["worker"] = "filled"
                   THEN loc["worker"].diff - loc["worker"].ret
                   ELSE loc["worker"].diff + loc["worker"].ret
       IN loc' = [loc EXCEPT !["worker"] =
                    [LocIdle EXCEPT !.diff = diff, !.num = update_balloon_size]]
    /\ pc' = Goto("worker", "cwrite")
    /\ UNCHANGED <<features, sidechannel, config, ledger, balloon_lock, range,
                   page_bmaps, array, balloon_page_chunk, transport, sent>>

\* queue_work of the size work by the work itself: it queues the work
\* unless cancel_work_sync has claimed it and waits for it to finish.
queue_work_self == IF pc["remove"] = "cancel_wait" THEN size_work ELSE TRUE

\* update_balloon_size: virtio_cwrite of the value read; in
\* update_balloon_size_func then "if (diff) queue_work".
ConfigWrite(t) ==
    /\ pc[t] = "cwrite"
    /\ actual' = loc[t].num
    /\ size_work' = IF t = "worker" /\ loc[t].diff # 0 THEN queue_work_self
                    ELSE size_work
    /\ pc' = Goto(t, IF t = "remove" THEN "removed" ELSE "idle")
    /\ loc' = [loc EXCEPT ![t] = LocIdle]
    /\ UNCHANGED <<features, sidechannel, target, ledger, balloon_lock, range,
                   page_bmaps, array, balloon_page_chunk, transport, sent>>

\* virtballoon_oom_notify up to the mutex_lock of leak_balloon; without
\* VIRTIO_BALLOON_F_DEFLATE_ON_OOM, the whole function.  The notifier is
\* called until virtballoon_remove has unregistered it.
OomNotify ==
    /\ pc["oom"] = "idle"
    /\ pc["remove"] = "idle"
    /\ IF deflate_on_oom
       THEN LeakEntry("oom", OOM_VBALLOON_DEFAULT_PAGES, 0)
       ELSE UNCHANGED <<range, pc, loc>>
    /\ UNCHANGED <<features, sidechannel, config, ledger, balloon_lock, page_bmaps, array,
                   balloon_page_chunk, transport, sent>>

\* virtballoon_oom_notify after leak_balloon returned: update_balloon_size
\* up to virtio_cwrite
OomNotifyDone ==
    /\ pc["oom"] = "leaked"
    /\ pc' = Goto("oom", "cwrite")
    /\ loc' = [loc EXCEPT !["oom"] = [LocIdle EXCEPT !.num = update_balloon_size]]
    /\ UNCHANGED <<features, sidechannel, config, ledger, balloon_lock, range,
                   page_bmaps, array, balloon_page_chunk, transport, sent>>

----
(* The stats queue.                                                        *)

\* The host takes the stats buffer and returns it to ask for fresh stats;
\* the callback of the queue is stats_request, which queues the stats work
\* unless the device is being removed.
stats_request ==
    /\ ~broken
    /\ stats_vq.avail # <<>>
    /\ stats_vq' = [avail |-> Tail(stats_vq.avail),
                    used |-> Append(stats_vq.used, Head(stats_vq.avail))]
    /\ stats_work' = IF ~stop_update THEN TRUE ELSE stats_work
    /\ UNCHANGED <<features, config, ledger, balloon_lock, range, page_bmaps,
                   array, balloon_page_chunk, transport, pc, loc, sent, miscq,
                   miscq_out_hdr, unused_page_chunk, acked, response>>

\* update_balloon_stats_func: stats_handle_request.  Without a returned
\* buffer (virtqueue_get_buf gives NULL, as it does on a broken queue) it
\* returns; otherwise it submits the stats buffer again.
stats_handle_request ==
    /\ stats_work
    /\ stats_work' = FALSE
    /\ stats_vq' = IF broken \/ stats_vq.used = <<>>
                   THEN stats_vq
                   ELSE [avail |-> Append(stats_vq.avail, Buffer("stats", <<>>)),
                         used |-> Tail(stats_vq.used)]
    /\ UNCHANGED <<features, config, ledger, balloon_lock, range, page_bmaps,
                   array, balloon_page_chunk, transport, pc, loc, sent, miscq,
                   miscq_out_hdr, unused_page_chunk, acked, response>>

----
(* The misc queue: the inquiry of unused pages.                            *)

RECURSIVE Pow2(_)
Pow2(n) == IF n = 0 THEN 1 ELSE 2 * Pow2(n - 1)

\* The free blocks the allocator's free lists can hold: NumBlocksPerOrder
\* blocks of each order below MAX_ORDER, aligned and disjoint.
UNUSED_BLOCKS ==
    {[order |-> o, pfn |-> (o * NumBlocksPerOrder + i) * Pow2(MAX_ORDER - 1)] :
        o \in 0 .. (MAX_ORDER - 1), i \in 0 .. (NumBlocksPerOrder - 1)}

\* The chunks miscq_send_unused_pages records for the free blocks blocks:
\* "for (order = MAX_ORDER - 1; order > 0; order--)", and within an order
\* every block inquire_unused_page_block returns.
RECURSIVE UnusedChunks(_, _)
UnusedChunks(blocks, order) ==
    IF ~(order > 0) THEN <<>>
    ELSE LET pfns_of_order == {b.pfn : b \in {x \in blocks : x.order = order}}
         IN [i \in 1 .. Cardinality(pfns_of_order) |->
                Chunk(SeqOfSet(pfns_of_order)[i], Pow2(order), "misc", NoPage)]
            \o UnusedChunks(blocks, order - 1)

\* What the host reads in the header of a buffer that is submitted now
HdrFlags ==
    IF miscq_out_hdr.flags = Uninitialized
    THEN {0, VIRTIO_BALLOON_MISCQ_F_COMPLETE}
    ELSE {miscq_out_hdr.flags}

\* A response buffer: the misc header, the chunk header and the chunks
UnusedBuffer(flags, chunks) == [fmt |-> "unused", flags |-> flags, body |-> chunks]

\* The host writes an inquiry (or a command the driver does not know) into
\* the posted header and returns it.
HostInquire ==
    /\ ~broken
    /\ \E i \in 1 .. Len(miscq.avail), cmd \in {"inquire_unused_pages", "unknown"} :
          /\ miscq.avail[i].fmt = "in_hdr"
          /\ miscq' = [avail |-> SubSeq(miscq.avail, 1, i - 1)
                                   \o SubSeq(miscq.avail, i + 1, Len(miscq.avail)),
                       used |-> Append(miscq.used, Buffer("in_hdr", cmd))]
    /\ UNCHANGED <<features, config, ledger, balloon_lock, range, page_bmaps,
                   array, balloon_page_chunk, transport, pc, loc, sent,
                   stats_vq, stats_work, miscq_out_hdr, unused_page_chunk,
                   acked, response>>

\* The host consumes a response buffer and returns it.
HostAckMisc ==
    /\ ~broken
    /\ \E i \in 1 .. Len(miscq.avail) :
          /\ miscq.avail[i].fmt = "unused"
          /\ miscq' = [avail |-> SubSeq(miscq.avail, 1, i - 1)
                                   \o SubSeq(miscq.avail, i + 1, Len(miscq.avail)),
                       used |-> Append(miscq.used, miscq.avail[i])]
    /\ UNCHANGED <<features, config, ledger, balloon_lock, range, page_bmaps,
                   array, balloon_page_chunk, transport, pc, loc, sent,
                   stats_vq, stats_work, miscq_out_hdr, unused_page_chunk,
                   acked, response>>

\* balloon_ack, the callback of the inflate and the deflate queue, runs when
\* one of them has a returned buffer: wake_up(&vb->acked).
balloon_ack ==
    /\ \E q \in Queues : vq_used[q] # <<>>
    /\ acked # {}
    /\ acked' = {}
    /\ UNCHANGED <<features, config, ledger, balloon_lock, range, page_bmaps,
                   array, balloon_page_chunk, transport, pc, loc, sent,
                   stats_vq, miscq, stats_work, miscq_out_hdr,
                   unused_page_chunk, response>>

\* miscq_handle, the callback of the misc queue, up to the first
\* add_one_chunk of miscq_send_unused_pages: virtqueue_get_buf, the check of
\* the header, "miscq_out_hdr->flags = 0", and the walk of the free lists,
\* which hold one of the sets of free blocks in lists (kept in batch).
MiscqHandle(lists) ==
    /\ pc["misc"] = "idle"
    /\ ~broken
    /\ miscq.used # <<>>
    /\ miscq' = [miscq EXCEPT !.used = Tail(@)]
    /\ LET hdr == Head(miscq.used)
       IN IF hdr.fmt = "in_hdr" /\ hdr.body = "inquire_unused_pages"
          THEN /\ miscq_out_hdr' = [cmd |-> "inquire_unused_pages", flags |-> 0]
               /\ \E blocks \in lists :
                     loc' = [loc EXCEPT !["misc"] =
                               [LocIdle EXCEPT !.todo = UnusedChunks(blocks, MAX_ORDER - 1),
                                               !.num = Cardinality(blocks),
                                               !.batch = blocks,
                                               !.vq = "misc"]]
               /\ pc' = Goto("misc", "unused")
          ELSE /\ pc' = Goto("misc", "in_hdr_add")
               /\ UNCHANGED <<miscq_out_hdr, loc>>
    /\ UNCHANGED <<features, config, ledger, balloon_lock, range, page_bmaps,
                   array, balloon_page_chunk, transport, sent, stats_vq,
                   stats_work, unused_page_chunk, acked, response>>

miscq_handle == MiscqHandle(SUBSET UNUSED_BLOCKS)

\* send_page_chunks(PAGE_CHUNK_TYPE_UNUSED) up to the wait: the queue and
\* the record of the response after the call.
SendUnused(chunks, flags) ==
    IF broken
    THEN /\ miscq' = miscq
         /\ response' = response
    ELSE /\ miscq' = [miscq EXCEPT !.avail = Append(@, UnusedBuffer(flags, chunks))]
         /\ response' = Append(response, UnusedBuffer(flags, chunks))

\* add_one_chunk(PAGE_CHUNK_TYPE_UNUSED) for the next free block; at
\* MAX_PAGE_CHUNKS it calls send_page_chunks with busy_wait = false.
MiscAddOneChunk ==
    /\ pc["misc"] = "unused"
    /\ loc["misc"].todo # <<>>
    /\ Len(unused_page_chunk) < MAX_PAGE_CHUNKS + MaxOverrun
    /\ unused_page_chunk' = Append(unused_page_chunk, Head(loc["misc"].todo))
    /\ loc' = [loc EXCEPT !["misc"] = [@ EXCEPT !.todo = Tail(@)]]
    /\ IF Len(unused_page_chunk') = MAX_PAGE_CHUNKS
       THEN /\ \E f \in HdrFlags : SendUnused(unused_page_chunk', f)
            /\ pc' = IF broken THEN pc ELSE Goto("misc", "unused_cap_wait")
       ELSE /\ UNCHANGED <<miscq, response>>
            /\ pc' = pc
    /\ UNCHANGED <<features, config, ledger, balloon_lock, range, page_bmaps,
                   array, balloon_page_chunk, transport, sent, stats_vq,
                   stats_work, miscq_out_hdr, acked>>

\* add_one_chunk going on without the wait of send_page_chunks
MiscNoWait ==
    /\ pc["misc"] = "unused_cap_wait"
    /\ unused_page_chunk' = <<>>
    /\ pc' = Goto("misc", "unused")
    /\ UNCHANGED <<features, config, ledger, balloon_lock, range, page_bmaps,
                   array, balloon_page_chunk, transport, loc, sent, stats_vq,
                   stats_work, miscq, miscq_out_hdr, acked, response>>
\* wait_event(vb->acked, virtqueue_get_buf(vq, &len)) on the misc queue: the
\* condition is evaluated on entry and after every wake_up(&vb->acked);
\* when it is false the caller sleeps on vb->acked.
MiscWaitAcked ==
    /\ pc["misc"] = "unused_cap_wait"
    /\ "misc" \notin acked
    /\ IF ~broken /\ miscq.used # <<>>
       THEN /\ miscq' = [miscq EXCEPT !.used = Tail(@)]
            /\ unused_page_chunk' = <<>>
            /\ pc' = Goto("misc", "unused")
            /\ acked' = acked
       ELSE /\ acked' = acked \cup {"misc"}
            /\ UNCHANGED <<miscq, unused_page_chunk, pc>>
    /\ UNCHANGED <<features, config, ledger, balloon_lock, range, page_bmaps,
                   array, balloon_page_chunk, transport, loc, sent, stats_vq,
                   stats_work, miscq_out_hdr, response>>

\* miscq_send_unused_pages after its loops: set VIRTIO_BALLOON_MISCQ_F_COMPLETE
\* and send_page_chunks with busy_wait = true, up to the wait.
MiscSendComplete ==
    /\ pc["misc"] = "unused"
    /\ loc["misc"].todo = <<>>
    /\ miscq_out_hdr' = [miscq_out_hdr EXCEPT !.flags = VIRTIO_BALLOON_MISCQ_F_COMPLETE]
    /\ SendUnused(unused_page_chunk, VIRTIO_BALLOON_MISCQ_F_COMPLETE)
    /\ pc' = Goto("misc", IF broken THEN "in_hdr_add" ELSE "unused_busy_wait")
    /\ UNCHANGED <<features, config, ledger, balloon_lock, range, page_bmaps,
                   array, balloon_page_chunk, transport, loc, sent, stats_vq,
                   stats_work, unused_page_chunk, acked>>

\* the busy loop without the test of virtqueue_is_broken
MiscBusyWaitNoBroken ==
    /\ pc["misc"] = "unused_busy_wait"
    /\ ~broken
    /\ miscq.used # <<>>
    /\ miscq' = [miscq EXCEPT !.used = Tail(@)]
    /\ unused_page_chunk' = <<>>
    /\ pc' = Goto("misc", "in_hdr_add")
    /\ UNCHANGED <<features, config, ledger, balloon_lock, range, page_bmaps,
                   array, balloon_page_chunk, transport, loc, sent, stats_vq,
                   stats_work, miscq_out_hdr, acked, response>>
\* "while (!virtqueue_get_buf(vq, &len) && !virtqueue_is_broken(vq))
\* cpu_relax();" ends, and hdr->chunks = 0.
MiscBusyWait ==
    /\ pc["misc"] = "unused_busy_wait"
    /\ broken \/ miscq.used # <<>>
    /\ miscq' = IF broken THEN miscq ELSE [miscq EXCEPT !.used = Tail(@)]
    /\ unused_page_chunk' = <<>>
    /\ pc' = Goto("misc", "in_hdr_add")
    /\ UNCHANGED <<features, config, ledger, balloon_lock, range, page_bmaps,
                   array, balloon_page_chunk, transport, loc, sent, stats_vq,
                   stats_work, miscq_out_hdr, acked, response>>

\* miscq_in_hdr_add at the end of miscq_handle: post the header again
MiscqInHdrAdd ==
    /\ pc["misc"] = "in_hdr_add"
    /\ miscq' = IF broken THEN miscq
                ELSE [miscq EXCEPT !.avail = Append(@, miscq_in_hdr)]
    /\ pc' = Goto("misc", "idle")
    /\ loc' = [loc EXCEPT !["misc"] = LocIdle]
    /\ response' = <<>>
    /\ UNCHANGED <<features, config, ledger, balloon_lock, range, page_bmaps,
                   array, balloon_page_chunk, transport, sent, stats_vq,
                   stats_work, miscq_out_hdr, unused_page_chunk, acked>>

----
(* virtballoon_remove.                                                     *)

\* virtballoon_remove up to cancel_work_sync: unregister_oom_notifier
\* returns when no call of the notifier is running, and stop_update is set.
virtballoon_remove ==
    /\ pc["remove"] = "idle"
    /\ pc["oom"] = "idle"
    /\ stop_update' = TRUE
    /\ pc' = Goto("remove", "cancel")
    /\ UNCHANGED <<K, chunking, deflate_on_oom, config, ledger, balloon_lock,
                   range, page_bmaps, array, balloon_page_chunk, transport,
                   loc, sent, sidechannel>>

\* cancel_work_sync(&vb->update_balloon_size_work), 1st step: the work is
\* taken off the queue and claimed, so that queue_work fails until
\* cancel_work_sync returns.
CancelWorkSync ==
    /\ pc["remove"] = "cancel"
    /\ size_work' = FALSE
    /\ pc' = Goto("remove", "cancel_wait")
    /\ UNCHANGED <<features, sidechannel, target, actual, ledger, balloon_lock,
                   range, page_bmaps, array, balloon_page_chunk, transport,
                   loc, sent>>

\* cancel_work_sync, 2nd step: it returns when the size work is not
\* running; then cancel_work_sync(&vb->update_balloon_stats_work), whose
\* work runs without blocking.
CancelWorkWait ==
    /\ pc["remove"] = "cancel_wait"
    /\ pc["worker"] = "idle"
    /\ stats_work' = FALSE
    /\ pc' = Goto("remove", "drain")
    /\ UNCHANGED <<features, config, ledger, balloon_lock, range, page_bmaps,
                   array, balloon_page_chunk, transport, loc, sent, stats_vq,
                   miscq, miscq_out_hdr, unused_page_chunk, acked, response>>

\* remove_common: "while (vb->num_pages) leak_balloon(vb, vb->num_pages);"
\* up to the mutex_lock of leak_balloon, and after the loop
\* update_balloon_size up to virtio_cwrite.
RemoveCommon ==
    /\ pc["remove"] \in {"drain", "leaked"}
    /\ IF num_pages # 0
       THEN LeakEntry("remove", num_pages, 0)
       ELSE /\ loc' = [loc EXCEPT !["remove"] =
                         [LocIdle EXCEPT !.num = update_balloon_size]]
            /\ pc' = Goto("remove", "cwrite")
            /\ UNCHANGED range
    /\ UNCHANGED <<features, sidechannel, config, ledger, balloon_lock,
                   page_bmaps, array, balloon_page_chunk, transport, sent>>

----
(* Compaction and virtballoon_migratepage.                                 *)

\* balloon_page_isolate: compaction takes a page off the ledger's list
BalloonPageIsolate ==
    /\ pc["compact"] = "idle"
    /\ \E p \in pages :
          /\ pages' = pages \ {p}
          /\ loc' = [loc EXCEPT !["compact"] = [LocIdle EXCEPT !.page = p]]
    /\ isolated_pages' = isolated_pages + 1
    /\ pc' = Goto("compact", "isolated")
    /\ UNCHANGED <<features, sidechannel, config, free, num_pages, balloon_lock, range,
                   page_bmaps, array, balloon_page_chunk, transport, sent>>

\* compaction allocates the replacement page and calls the migratepage hook
MigrateAlloc ==
    /\ pc["compact"] = "isolated"
    /\ \E n \in free :
          /\ free' = free \ {n}
          /\ loc' = [loc EXCEPT !["compact"] = [@ EXCEPT !.newpage = n]]
    /\ pc' = Goto("compact", "migrate")
    /\ UNCHANGED <<features, sidechannel, config, pages, isolated_pages, num_pages,
                   balloon_lock, range, page_bmaps, array, balloon_page_chunk,
                   transport, sent>>

\* balloon_page_putback: compaction gives up (no replacement page, or the
\* hook returned -EAGAIN) and puts the page back on the list
BalloonPagePutback ==
    /\ pc["compact"] \in {"isolated", "eagain"}
    /\ pages' = pages \cup {loc["compact"].page}
    /\ isolated_pages' = isolated_pages - 1
    /\ free' = IF loc["compact"].newpage = NoPage THEN free
               ELSE free \cup {loc["compact"].newpage}
    /\ pc' = Goto("compact", "idle")
    /\ loc' = [loc EXCEPT !["compact"] = LocIdle]
    /\ UNCHANGED <<features, sidechannel, config, num_pages, balloon_lock, range,
                   page_bmaps, array, balloon_page_chunk, transport, sent>>

\* tell_host_one_page: add_one_chunk(page_to_pfn(page), 1) and nothing else;
\* the legacy branch: num_pfns, set_page_pfns, tell_host.
MigrateTell(t, page, q, pair, done) ==
    IF chunking
    THEN /\ loc' = [loc EXCEPT ![t] = [@ EXCEPT
                      !.todo = <<Chunk(page_to_pfn(page), 1, q, pair)>>,
                      !.vq = q, !.flush = FALSE, !.after = done]]
         /\ pc' = Goto(t, "emit")
         /\ UNCHANGED <<array, vq_avail>>
    ELSE /\ num_pfns' = K
         /\ pfns' = page_pfns(page)
         /\ vq_avail' = virtqueue_add_outbuf(q,
                           Buffer("pfns", PfnsBody(page_pfns(page), q, pair)))
         /\ loc' = [loc EXCEPT ![t] = [@ EXCEPT !.vq = q, !.after = done]]
         /\ pc' = Goto(t, "legacy_wait")

\* What the migration does to vb->num_pages: nothing.
MigrateCountInsert == num_pages + K
MigrateCount == num_pages

\* virtballoon_migratepage, 1st step: mutex_trylock; on failure return
\* -EAGAIN; otherwise insert newpage and tell the host on the inflate queue.
MigratePage ==
    /\ pc["compact"] = "migrate"
    /\ IF ~mutex_trylock(balloon_lock)
       THEN /\ pc' = Goto("compact", "eagain")
            /\ UNCHANGED <<balloon_lock, pages, isolated_pages, num_pages,
                           array, vq_avail, loc>>
       ELSE /\ balloon_lock' = "compact"
            /\ pages' = pages \cup {loc["compact"].newpage}
            /\ isolated_pages' = isolated_pages - 1
            /\ num_pages' = MigrateCount
            /\ MigrateTell("compact", loc["compact"].newpage, "inflate",
                           NoPage, "mig_delete")
    /\ UNCHANGED <<features, sidechannel, config, free, range, page_bmaps,
                   balloon_page_chunk, vq_used, broken, host_set, sent>>

\* compaction retries the hook after -EAGAIN
MigrateRetry ==
    /\ pc["compact"] = "eagain"
    /\ pc' = Goto("compact", "migrate")
    /\ UNCHANGED <<features, sidechannel, config, ledger, balloon_lock, range, page_bmaps,
                   array, balloon_page_chunk, transport, loc, sent>>

\* virtballoon_migratepage, 2nd step: balloon_page_delete(page) and tell the
\* host on the deflate queue.
MigrateDelete ==
    /\ pc["compact"] = "mig_delete"
    /\ MigrateTell("compact", loc["compact"].page, "deflate",
                   loc["compact"].newpage, "mig_unlock")
    /\ UNCHANGED <<features, sidechannel, config, ledger, balloon_lock, range, page_bmaps,
                   balloon_page_chunk, vq_used, broken, host_set, sent>>

\* virtballoon_migratepage: mutex_unlock
MigrateUnlock ==
    /\ pc["compact"] = "mig_unlock"
    /\ Unlock
    /\ pc' = Goto("compact", "mig_success")
    /\ UNCHANGED <<features, sidechannel, config, ledger, range, page_bmaps,
                   balloon_page_chunk, transport, loc>>

\* virtballoon_migratepage: put_page(page), return MIGRATEPAGE_SUCCESS
MigrateSuccess ==
    /\ pc["compact"] = "mig_success"
    /\ free' = free \cup {loc["compact"].page}
    /\ pc' = Goto("compact", "idle")
    /\ loc' = [loc EXCEPT !["compact"] = LocIdle]
    /\ UNCHANGED <<features, sidechannel, config, pages, isolated_pages, num_pages,
                   balloon_lock, range, page_bmaps, array, balloon_page_chunk,
                   transport, sent>>

----
(* The driver and its callers.                                             *)

Host == \E q \in Queues : HostAck(q)

\* fill_balloon / leak_balloon and the encoding they call, for any caller
Balloon ==
    \/ \E t \in Threads : FillLock(t)
    \/ \E t \in Threads : FillUnlock(t)
    \/ \E t \in Threads : LeakLock(t)
    \/ \E t \in Threads : LeakRelease(t)
    \/ \E t \in Threads : SetPageBmap(t)
    \/ \E t \in Threads : Pass(t)
    \/ \E t \in Threads : AddOneChunk(t)
    \/ \E t \in Threads : TellHostEnd(t)
    \/ \E t \in Threads : WaitAcked(t)

Worker == UpdateBalloonSizeFunc \/ UpdateBalloonSizeDone \/ ConfigWrite("worker")

Oom == OomNotify \/ OomNotifyDone \/ ConfigWrite("oom")

Remove ==
    \/ virtballoon_remove
    \/ CancelWorkSync
    \/ CancelWorkWait
    \/ RemoveCommon
    \/ ConfigWrite("remove")

Compaction ==
    \/ BalloonPageIsolate
    \/ MigrateAlloc
    \/ BalloonPagePutback
    \/ MigratePage
    \/ MigrateRetry
    \/ MigrateDelete
    \/ MigrateUnlock
    \/ MigrateSuccess

\* miscq_handle and what it calls
Misc ==
    \/ miscq_handle
    \/ MiscAddOneChunk
    \/ MiscWaitAcked
    \/ MiscSendComplete
    \/ MiscBusyWait
    \/ MiscqInHdrAdd

\* The size worker, the OOM notifier and compaction run concurrently over a
\* transport that works.
Next == virtballoon_changed \/ Host \/ Balloon \/ Worker \/ Oom \/ Compaction

Spec == Init /\ [][Next]_vars

\* The size worker alone, over a transport that can break at any time.
BrokenNext == virtballoon_changed \/ Host \/ TransportBreak \/ Balloon \/ Worker

BrokenSpec == Init /\ [][BrokenNext]_vars

\* The same, where the work queue runs queued work, a thread that can go on
\* does, and the host returns the buffers it got while the transport works.
BrokenFairSpec ==
    /\ Init
    /\ [][BrokenNext]_vars
    /\ WF_vars(Host)
    /\ WF_vars(Balloon)
    /\ WF_vars(Worker)

\* The encoding of deflate batches: the size worker empties a balloon that
\* holds any set of pages; chunks are negotiated, the transport works and
\* nothing else runs.
EncInit ==
    /\ \E k \in PagesPerPageValues, held \in SUBSET ENC_PFNS :
          /\ Cardinality(held) <= MaxEncPages
          /\ InitDevice(k, TRUE, FALSE, held, ENC_PFNS \ held)
    /\ target = 0
    /\ size_work = TRUE

EncNext ==
    \/ Host
    \/ Worker
    \/ \E t \in Threads : LeakLock(t)
    \/ \E t \in Threads : LeakRelease(t)
    \/ \E t \in Threads : SetPageBmap(t)
    \/ \E t \in Threads : Pass(t)
    \/ \E t \in Threads : AddOneChunk(t)
    \/ \E t \in Threads : TellHostEnd(t)
    \/ \E t \in Threads : WaitAcked(t)

EncSpec == EncInit /\ [][EncNext]_vars

\* The migration swap against shrink: a balloon that holds any set of pages
\* and has reached its target; the OOM notifier deflates it while compaction
\* migrates its pages.
SwapInit ==
    /\ \E k \in PagesPerPageValues, chunks \in BOOLEAN, held \in SUBSET SWAP_PFNS :
          InitDevice(k, chunks, TRUE, held, SWAP_PFNS \ held)
    /\ target = num_pages
    /\ size_work = FALSE

SwapNext ==
    \/ Host
    \/ Oom
    \/ Compaction
    \/ \E t \in Threads : LeakLock(t)
    \/ \E t \in Threads : LeakRelease(t)
    \/ \E t \in Threads : SetPageBmap(t)
    \/ \E t \in Threads : Pass(t)
    \/ \E t \in Threads : AddOneChunk(t)
    \/ \E t \in Threads : TellHostEnd(t)
    \/ \E t \in Threads : WaitAcked(t)

SwapSpec == SwapInit /\ [][SwapNext]_vars

\* A single caller of fill_balloon and leak_balloon: the size worker follows
\* targets up to twice the capacity of the pfn array on a balloon that starts
\* empty, over a transport that works.
GrowInit ==
    /\ \E k \in PagesPerPageValues, chunks \in BOOLEAN :
          InitDevice(k, chunks, FALSE, {}, GROW_PFNS)
    /\ target = 0
    /\ size_work = FALSE

GrowNext == ConfigChanged(GROW_TARGETS) \/ Host \/ Balloon \/ Worker

GrowSpec == GrowInit /\ [][GrowNext]_vars

\* The size negotiation towards one target: the device is probed with a
\* balloon of C = num_pages units, the host has set a target T > C before
\* the probe (virtballoon_probe queues the size work when towards_target is
\* not 0) and never changes it.  The work queue runs queued work, the mutex
\* has one user and the host returns every buffer.
TargetInit ==
    /\ \E k \in PagesPerPageValues, chunks \in BOOLEAN, held \in SUBSET TARGET_PFNS :
          /\ Cardinality(held) <= MaxTargetHeld
          /\ InitDevice(k, chunks, FALSE, held, TARGET_PFNS \ held)
    /\ target \in (num_pages + 1) .. (K * NumTargetPfns)
    /\ size_work = TRUE

TargetNext == Host \/ Balloon \/ Worker

TargetSpec ==
    /\ TargetInit
    /\ [][TargetNext]_vars
    /\ WF_vars(Host)
    /\ WF_vars(Balloon)
    /\ WF_vars(Worker)

\* The inquiry of unused pages on its own: the host sends commands on the
\* misc queue and returns every response buffer, over a transport that
\* works; the balloon stays empty.  The callback runs to its end unless it
\* waits.
MiscInit ==
    /\ InitDevice(1, TRUE, FALSE, {}, {})
    /\ target = 0
    /\ size_work = FALSE

MiscNext == HostInquire \/ HostAckMisc \/ Misc

MiscSpec ==
    /\ MiscInit
    /\ [][MiscNext]_vars
    /\ WF_vars(HostAckMisc)
    /\ WF_vars(Misc)

\* The life of the published size: the size worker follows the targets of
\* the host, the OOM notifier deflates, and the device is removed at any
\* moment; the transport works and no page is migrated.
SizeNext == virtballoon_changed \/ Host \/ Balloon \/ Worker \/ Oom \/ Remove

SizeSpec == Init /\ [][SizeNext]_vars

\* Everything that submits buffers, together: the size worker grows the
\* balloon towards the target the host set before the probe, while the OOM
\* notifier deflates it, compaction migrates its pages, the host asks for
\* stats and inquires about unused pages (free lists that are empty, or
\* hold more blocks than one buffer takes).
QUEUE_LISTS == {{}, {b \in UNUSED_BLOCKS : b.order > 0}}

QueueInit ==
    /\ \E chunks \in BOOLEAN : InitDevice(1, chunks, TRUE, {}, PFNS)
    /\ target = 1
    /\ size_work = TRUE

QueueMisc ==
    \/ MiscqHandle(QUEUE_LISTS)
    \/ MiscAddOneChunk
    \/ MiscWaitAcked
    \/ MiscSendComplete
    \/ MiscBusyWait
    \/ MiscqInHdrAdd

QueueNext ==
    \/ Host
    \/ Balloon
    \/ Worker
    \/ Oom
    \/ Compaction
    \/ stats_request
    \/ stats_handle_request
    \/ HostInquire
    \/ HostAckMisc
    \/ balloon_ack
    \/ QueueMisc

QueueSpec == QueueInit /\ [][QueueNext]_vars

\* The inquiry of unused pages over a transport that can break at any
\* time; the host may or may not return a buffer.  The callback runs on a
\* CPU until it sleeps.
BusyNext == HostInquire \/ HostAckMisc \/ TransportBreak \/ Misc

BusySpec ==
    /\ MiscInit
    /\ [][BusyNext]_vars
    /\ WF_vars(Misc)

\* The shutdown flag: the host changes the target and asks for stats, the
\* size worker follows the target, and the device is removed at any
\* moment; the transport works.
StopNext ==
    \/ virtballoon_changed
    \/ Host
    \/ Balloon
    \/ Worker
    \/ Remove
    \/ stats_request
    \/ stats_handle_request

StopSpec == Init /\ [][StopNext]_vars

\* The drain of virtballoon_remove: the device is removed while the
\* balloon holds any set of pages and compaction migrates them.  The host
\* returns every buffer, every thread that can go on does, and the mutex
\* is handed to a caller of mutex_lock that waits for it.
DrainInit ==
    /\ \E k \in PagesPerPageValues, chunks \in BOOLEAN, held \in SUBSET PFNS :
          InitDevice(k, chunks, FALSE, held, PFNS \ held)
    /\ target = num_pages
    /\ size_work = FALSE

DrainLeak ==
    \/ \E t \in Threads : LeakLock(t)
    \/ \E t \in Threads : LeakRelease(t)
    \/ \E t \in Threads : SetPageBmap(t)
    \/ \E t \in Threads : Pass(t)
    \/ \E t \in Threads : AddOneChunk(t)
    \/ \E t \in Threads : TellHostEnd(t)
    \/ \E t \in Threads : WaitAcked(t)

DrainNext == Host \/ Remove \/ Compaction \/ DrainLeak

DrainSpec ==
    /\ DrainInit
    /\ [][DrainNext]_vars
    /\ WF_vars(Host)
    /\ WF_vars(Remove)
    /\ WF_vars(Compaction)
    /\ WF_vars(DrainLeak)
    /\ SF_vars(LeakLock("remove"))

----
(* Properties of the ledger and of the lock.                               *)

\* The threads that are between taking balloon_lock and releasing it.  A
\* thread that faulted ("oops") never releases it.
InCritical(t) ==
    pc[t] \in {"bmap", "pass", "emit", "cap_wait", "final_wait", "legacy_wait",
               "fill_unlock", "release", "mig_delete", "mig_unlock", "oops"}

\* A call of fill_balloon that the allocator cut short
Exhausted(t) ==
    /\ pc[t] \in {"fill_unlock", "filled"}
    /\ Cardinality(loc[t].batch) < LoopCount(loc[t].num)

\* C1: in every state the counter num_pages is K times the number of pages
\* the ledger holds: the pages on its list and the pages compaction has
\* isolated from the list (isolated_pages); with no page isolated, K times
\* the length of the list.  This includes the states after the allocator
\* ran dry in the middle of a grow.
C1_CounterMatchesLedger ==
    num_pages = K * (Cardinality(pages) + isolated_pages)

\* a grow was cut short by the allocator after it obtained a page, while a
\* shrink is about to start
C1_Witness ==
    /\ \E t \in Threads : Exhausted(t) /\ loc[t].batch # {}
    /\ \E t \in Threads : pc[t] = "leak_lock"
    /\ isolated_pages = 0

\* C5: at most one of grow, shrink and migration is inside its sequence of
\* ledger update, encoding and notification: a thread is in that sequence
\* only as the owner of balloon_lock.
C5_MutualExclusion ==
    /\ \A t \in Threads : InCritical(t) => balloon_lock = t
    /\ \A t1, t2 \in Threads : InCritical(t1) /\ InCritical(t2) => t1 = t2

\* a shrink waits for its notification to be acknowledged while a grow
\* waits for the lock and compaction has isolated a page
C5_Witness ==
    /\ \E t \in Threads : pc[t] \in {"final_wait", "legacy_wait"} /\ loc[t].vq = "deflate"
    /\ \E t \in Threads : pc[t] = "fill_lock"
    /\ pc["compact"] = "isolated"

\* The state a migration that was turned away must leave alone: everything
\* but its own position.
shared == <<features, config, ledger, balloon_lock, range, page_bmaps, array,
            balloon_page_chunk, transport, loc, sent>>

\* A step of the compaction thread
CompactionStep == pc'["compact"] # pc["compact"] \/ loc'["compact"] # loc["compact"]

\* C6, step by step: (1) a migration that finds the lock held returns
\* -EAGAIN and changes nothing; (2) a migration that finds the lock free
\* takes it; (3) no step of the migration changes num_pages; (4) num_pages
\* goes down only in leak_balloon, by the number of units leak_balloon
\* returns.
C6_Step ==
    /\ (pc["compact"] = "migrate" /\ balloon_lock # NoThread /\ CompactionStep)
          => (pc'["compact"] = "eagain" /\ UNCHANGED shared)
    /\ (pc["compact"] = "migrate" /\ balloon_lock = NoThread /\ CompactionStep)
          => (balloon_lock' = "compact" /\ pc'["compact"] \in {"emit", "legacy_wait"})
    /\ CompactionStep => num_pages' = num_pages
    /\ num_pages' < num_pages
          => \E t \in Threads \ {"compact"} :
                /\ pc[t] = "leak_lock"
                /\ pc'[t] # "leak_lock"
                /\ num_pages - num_pages' = loc'[t].ret
                /\ num_pages - num_pages' = K * Cardinality(loc'[t].batch)

\* C6: the migration never blocks on balloon_lock (its step is enabled
\* whether or not the lock is held); when the lock is held it returns
\* -EAGAIN with no state changed; when it wins the lock it ends with the
\* new page on the list in place of the old one; and num_pages changes only
\* by what shrink removes: the migration leaves the counter unchanged.
C6_MigrationTrylock ==
    /\ [](pc["compact"] = "migrate" => ENABLED MigratePage)
    /\ [](pc["compact"] = "mig_unlock"
             => /\ loc["compact"].newpage \in pages
                /\ loc["compact"].page \notin pages)
    /\ [][C6_Step]_vars

\* a migration was turned away by a shrink that holds the lock and has
\* taken pages off the ledger
C6_Witness ==
    /\ pc["compact"] = "eagain"
    /\ \E t \in Threads \ {"compact"} :
          /\ balloon_lock = t
          /\ pc[t] \in {"final_wait", "legacy_wait", "bmap", "pass"}
          /\ loc[t].vq = "deflate"
          /\ loc[t].ret > 0

----
(* Properties of the notifications.                                        *)

\* The descriptors of the buffers of queue q that were acknowledged since
\* balloon_lock was taken, in the order of their acknowledgment
RECURSIVE AckedOn(_, _)
AckedOn(q, ss) ==
    IF ss = <<>> THEN <<>>
    ELSE (IF Head(ss).q = q THEN Head(ss).body ELSE <<>>) \o AckedOn(q, Tail(ss))
Acked(q) == AckedOn(q, sent)

\* The balloon pfns of the pages of t's batch, as the bitmap records them
BatchPfns(t) == {page_to_balloon_pfn(p) : p \in loc[t].batch}

\* How many of the descriptors cs cover the pfn
Covers(pfn, cs) == Cardinality({i \in 1 .. Len(cs) : pfn \in ChunkPfns(cs[i])})

\* Decoding the descriptors acknowledged on the deflate queue gives the
\* pfns of t's batch, each once, and nothing else
RoundTrip(t) ==
    /\ \A pfn \in BatchPfns(t) : Covers(pfn, Acked("deflate")) = 1
    /\ BodyPfns(Acked("deflate")) \subseteq BatchPfns(t)

\* The span of the pfns of t's batch, and whether the bitmaps set_page_bmap
\* had for it cover the span
BatchSpan(t) ==
    LET S == BatchPfns(t)
    IN (CHOOSE x \in S : \A y \in S : x >= y) - (CHOOSE x \in S : \A y \in S : x <= y) + 1
SpanFits(t) == BatchSpan(t) <= PFNS_PER_PAGE_BMAP * loc[t].wins

\* C2: leak_balloon releases the pages of its batch only after a deflate
\* notification that contains the pfn of each of them was submitted and
\* acknowledged.
C2_ReleaseAfterAck ==
    \A t \in Threads :
        pc[t] = "release" => BatchPfns(t) \subseteq BodyPfns(Acked("deflate"))

\* C3: when virtballoon_migratepage is about to release the lock and return
\* success, the host has acknowledged an inflate notification for the new
\* page and a deflate notification for the old page.
C3_SwapAcked ==
    pc["compact"] = "mig_unlock" =>
        /\ page_to_balloon_pfn(loc["compact"].newpage) \in BodyPfns(Acked("inflate"))
        /\ page_to_balloon_pfn(loc["compact"].page) \in BodyPfns(Acked("deflate"))

\* C4: when the host has consumed, on the deflate queue, the notice that the
\* old page of a migration is gone, it has already learned on the inflate
\* queue that the replacement page is surrendered.
C4_InflateBeforeDeflate ==
    \A i \in 1 .. Len(vq_used["deflate"]) :
        \A j \in 1 .. Len(vq_used["deflate"][i].body) :
            LET c == vq_used["deflate"][i].body[j]
            IN c.pair # NoPage => page_to_balloon_pfn(c.pair) \in host_set

\* C7: a batch whose span fits the bitmaps (one pass) is encoded exactly:
\* the descriptors decode to the pfns of the batch, also when the smallest
\* or the largest pfn is a multiple of BITS_PER_LONG; the encoding ends.
C7_SinglePassRoundTrip ==
    \A t \in Threads :
        (pc[t] \in {"release", "oops"} /\ loc[t].batch # {} /\ SpanFits(t))
            => (pc[t] = "release" /\ RoundTrip(t))

\* C8: a batch whose span does not fit the bitmaps (several passes) is
\* encoded exactly: every pfn is reported in exactly one pass, a pfn on the
\* boundary of two passes neither skipped nor reported twice.
C8_MultiPassRoundTrip ==
    \A t \in Threads :
        (pc[t] \in {"release", "oops"} /\ loc[t].batch # {} /\ ~SpanFits(t))
            => (pc[t] = "release" /\ RoundTrip(t))

\* C9: a batch of exactly one page with pfn p, p = 0 or a multiple of
\* BITS_PER_LONG included, is encoded as exactly one descriptor (p, 1).
C9_SinglePage ==
    \A t \in Threads :
        (pc[t] = "release" /\ Cardinality(loc[t].batch) = 1)
            => \E p \in BatchPfns(t) :
                  Acked("deflate") = <<Chunk(p, 1, "deflate", NoPage)>>

\* C10: after add_one_chunk reached MAX_PAGE_CHUNKS the buffer was flushed
\* and the count of pending descriptors is back to zero before the next
\* descriptor is written: no descriptor is written while the buffer is
\* full.
C10_FlushAtCap ==
    \A t \in Threads :
        (pc[t] = "emit" /\ loc[t].todo # <<>>)
            => Len(balloon_page_chunk) < MAX_PAGE_CHUNKS

----
(* Properties of grow and of the size negotiation.                         *)

\* The scenario of a single grow of twice the array capacity with K = 2 on
\* an empty ledger, the allocator never exhausted: the worker is about to
\* leave fill_balloon.
GrowScenario(t) ==
    /\ pc[t] = "fill_unlock"
    /\ ~Exhausted(t)
    /\ K = 2
    /\ loc[t].diff = 2 * VIRTIO_BALLOON_ARRAY_PFNS_MAX
    /\ num_pages = loc[t].ret

\* The flushes of the critical section so far: exactly one buffer, on the
\* inflate queue, acknowledged, and nothing left in flight
OneInflateFlush ==
    /\ Len(sent) = 1
    /\ sent[1].q = "inflate"
    /\ \A q \in Queues : vq_avail[q] = <<>> /\ vq_used[q] = <<>>

\* C11 as stated: the single grow of the scenario makes the ledger size the
\* requested number of units and returns it; on the legacy path with
\* exactly one flush.
C11_GrowAll ==
    \A t \in Threads :
        GrowScenario(t) =>
            /\ loc[t].ret = loc[t].diff
            /\ num_pages = loc[t].diff
            /\ ~chunking => OneInflateFlush

\* C11, amended: a single grow(n) that the allocator does not cut short
\* adds and returns n units (in whole pages) on the chunk path; on the
\* legacy path it adds and returns at most one pfn array worth,
\* min(n, VIRTIO_BALLOON_ARRAY_PFNS_MAX) units, with exactly one flush.  The
\* pages it obtained are on the ledger's list.
C11_GrowOneArray ==
    \A t \in Threads :
        (pc[t] = "fill_unlock" /\ ~Exhausted(t)) =>
            /\ loc[t].ret = IF chunking THEN roundup(loc[t].diff, K)
                            ELSE roundup(Min(loc[t].diff, VIRTIO_BALLOON_ARRAY_PFNS_MAX), K)
            /\ loc[t].ret = K * Cardinality(loc[t].batch)
            /\ loc[t].batch \subseteq pages
            /\ ~chunking => OneInflateFlush

\* the scenario on the legacy path: one array worth was added, with one
\* flush, and half of the request is still missing
C11_Witness ==
    \E t \in Threads :
        /\ GrowScenario(t)
        /\ ~chunking
        /\ loc[t].ret = VIRTIO_BALLOON_ARRAY_PFNS_MAX
        /\ num_pages = VIRTIO_BALLOON_ARRAY_PFNS_MAX
        /\ OneInflateFlush

\* What C12 asks of a grow that the allocator cut short after the pages of
\* t's batch
ShortGrowReported(t) ==
    /\ loc[t].ret = K * Cardinality(loc[t].batch)
    /\ loc[t].batch \subseteq pages
    /\ loc[t].batch # {} => BatchPfns(t) \subseteq BodyPfns(Acked("inflate"))
    /\ loc[t].batch = {} => sent = <<>>
    /\ \A q \in Queues : vq_avail[q] = <<>> /\ vq_used[q] = <<>>

\* C12: a grow that the allocator cut short after M pages ends, returns
\* K x M units, has the M pages on the ledger and has reported them to the
\* host on the inflate queue; with M = 0 it has submitted nothing.
C12_ShortGrow ==
    \A t \in Threads :
        (pc[t] = "fill_unlock" /\ Exhausted(t)) => ShortGrowReported(t)

\* C17: a call grow(n) never adds more than n units: what it returns, and
\* what it adds to the counter, is at most n rounded down to a multiple of K.
C17_GrowAtMost ==
    \A t \in Threads :
        pc[t] = "fill_unlock" =>
            /\ loc[t].ret <= loc[t].diff
            /\ loc[t].ret <= rounddown(loc[t].diff, K)
            /\ loc[t].ret = K * Cardinality(loc[t].batch)

\* The size negotiation has come to rest at the target
Reached ==
    /\ pc["worker"] = "idle"
    /\ ~size_work
    /\ num_pages = target
    /\ actual = target

\* C13: with a fixed target T > C, an allocator that never runs dry and a
\* host that acknowledges every buffer, the size worker eventually has added
\* exactly T - C units, has published T as 'actual' and is not queued again.
C13_ReachesTarget == (<>(\E t \in Threads : Exhausted(t))) \/ <>[]Reached

----
(* Properties of the inquiry of unused pages.                              *)

\* An inquiry is being answered
Responding == pc["misc"] \in {"unused", "unused_cap_wait", "unused_busy_wait"}

\* The response was flushed for the last time
Completed == pc["misc"] \in {"unused_busy_wait", "in_hdr_add"} /\ response # <<>>

\* Exactly the last buffer of the response carries the complete flag, and
\* the response to an inquiry that found no free block is one buffer
\* without chunks.
OneCompleteFlush ==
    /\ \A i \in 1 .. Len(response) :
          response[i].flags = IF i = Len(response)
                              THEN VIRTIO_BALLOON_MISCQ_F_COMPLETE ELSE 0
    /\ loc["misc"].num = 0 => (Len(response) = 1 /\ response[1].body = <<>>)

\* No flush before the last one carries the complete flag
NoEarlyComplete ==
    (pc["misc"] \in {"unused", "unused_cap_wait"}) =>
        \A i \in 1 .. Len(response) : response[i].flags = 0

\* C14: every response to an inquiry of unused pages ends with exactly one
\* final flush whose header carries VIRTIO_BALLOON_MISCQ_F_COMPLETE; no
\* earlier flush of the response (at MAX_PAGE_CHUNKS) carries the flag; the
\* final flush happens, with zero chunks, when there is no free block.
C14_FinalFlush ==
    /\ [](NoEarlyComplete /\ (Completed => OneCompleteFlush))
    /\ (Responding ~> (Completed /\ OneCompleteFlush))

----
(* Properties of the waits.                                                *)

\* t waits for the acknowledgment of a buffer it submitted
Waiting(t) == pc[t] \in {"cap_wait", "final_wait", "legacy_wait"}

\* C15: when the transport is broken, a batch of grow, shrink or migration
\* that waits for an acknowledgment stops waiting and releases
\* balloon_lock, with chunks (send_page_chunks) and without (tell_host).
C15_BrokenStopsWaiting ==
    \A t \in Threads : (broken /\ Waiting(t)) ~> (balloon_lock # t)

----
(* Properties of the queues.                                               *)

\* The response buffers of the misc queue the host has not returned
UnusedInFlight == {i \in 1 .. Len(miscq.avail) : miscq.avail[i].fmt = "unused"}

\* C16: on each of the inflate, deflate, stats and misc queues at most one
\* outbound buffer is submitted and not yet returned, however the size
\* worker, the OOM notifier, migration, the stats requests and the inquiries
\* interleave.
C16_OneInFlight ==
    /\ \A q \in Queues : Len(vq_avail[q]) <= 1
    /\ Len(stats_vq.avail) <= 1
    /\ Cardinality(UnusedInFlight) <= 1

\* a buffer is in flight on the inflate, the stats and the misc queue at
\* once, while the OOM notifier waits for the lock
C16_Witness ==
    /\ Len(vq_avail["inflate"]) = 1
    /\ Len(stats_vq.avail) = 1
    /\ Cardinality(UnusedInFlight) = 1
    /\ pc["misc"] = "unused_cap_wait"
    /\ pc["oom"] = "leak_lock"

----
(* Properties of the batches of the chunk path.                            *)

\* C18: an inflate batch with chunks transmits, on the inflate queue, the
\* pfns of the pages fill_balloon added in this batch and no others: a page
\* of an earlier batch that lies inside the range of the batch is not
\* reported again.
C18_OnlyBatchReported ==
    \A t \in Threads :
        (chunking /\ pc[t] = "fill_unlock") =>
            BodyPfns(Acked("inflate")) \cap
                {page_to_balloon_pfn(p) : p \in pages \ loc[t].batch} = {}

\* t is between the reset of the range and the end of the encoding of a
\* batch it collected under the lock
Encoding(t) ==
    /\ chunking
    /\ pc[t] \in {"bmap", "pass", "emit", "cap_wait", "final_wait"}
    /\ loc[t].batch # {}

\* C19: nothing but the batch itself changes pfn_min and pfn_max between the
\* reset of the range and the end of the encoding of the batch: no shrink of
\* the OOM notifier during a grow of the size worker, or the other way
\* round, resets them, so every page of the batch in progress is inside
\* the range that is encoded.
C19_BatchInsideRange ==
    \A t \in Threads :
        Encoding(t) =>
            \A pfn \in BatchPfns(t) : pfn_min <= pfn /\ pfn <= pfn_max

----
(* Properties of the published size.                                       *)

\* Neither the size worker, nor the OOM notifier, nor virtballoon_remove is
\* inside a call
NoOperation == \A t \in {"worker", "oom", "remove"} : pc[t] \in {"idle", "removed"}

\* C20: after every step of the size worker, after every shrink of the OOM
\* notifier and after the drain of remove_common, the value last written to
\* 'actual' is num_pages: whenever no grow or shrink is in progress,
\* actual = num_pages.
C20_ActualIsNumPages == NoOperation => actual = num_pages

----
(* Properties of the busy wait.                                            *)

\* The final flush of a response spins for its buffer
BusyWaiting == pc["misc"] = "unused_busy_wait"

\* What ends the spin: the transport has returned a buffer, or is broken
BusyWaitOver == broken \/ miscq.used # <<>>

\* C21: the busy wait of the final flush of a response ends as soon as the
\* transport has returned the buffer or is broken, and for no other reason;
\* it does not spin for ever on a broken transport.
C21_BusyWaitEnds ==
    /\ [][(BusyWaiting /\ ~BusyWaiting') => BusyWaitOver]_vars
    /\ ((BusyWaiting /\ BusyWaitOver) ~> ~BusyWaiting)
    /\ ((BusyWaiting /\ broken) ~> ~BusyWaiting)

\* the spin has ended on a transport that broke while the final buffer of
\* the response was in flight: the host never returned it
C21_Witness ==
    /\ pc["misc"] = "in_hdr_add"
    /\ broken
    /\ response # <<>>
    /\ UnusedInFlight # {}
    /\ miscq.used = <<>>
    /\ unused_page_chunk = <<>>

----
(* Properties of the shutdown flag.                                        *)

\* C22: once virtballoon_remove has set stop_update, no size work and no
\* stats work is queued any more: not by virtballoon_changed, not by
\* stats_request, and not by the size worker queuing itself on a non-zero
\* diff.
C22_NoWorkAfterStop ==
    [][stop_update => /\ (size_work' => size_work)
                      /\ (stats_work' => stats_work)]_vars

----
(* Properties of the content of a response.                                *)

\* The chunks of all the buffers of the response, in the order of the
\* flushes
ResponseChunks == Flatten([i \in 1 .. Len(response) |-> response[i].body])

\* The free blocks the allocator's lists held when the inquiry was answered
InquiredBlocks == loc["misc"].batch

\* C23: a response to an inquiry of unused pages holds one chunk for every
\* free block of every order, from MAX_ORDER - 1 down to and including
\* order 0, with base = the pfn of the block and size = 2^order, and no
\* other chunk.
C23_EveryOrder ==
    Completed =>
        /\ Len(ResponseChunks) = Cardinality(InquiredBlocks)
        /\ \A b \in InquiredBlocks :
              \E i \in 1 .. Len(ResponseChunks) :
                 /\ ResponseChunks[i].base = b.pfn
                 /\ ResponseChunks[i].size = Pow2(b.order)

----
(* Properties of the bitmaps.                                              *)

\* t is inside set_page_bmap, between extend_page_bmap_size and
\* free_extended_page_bmap; a thread that faulted there never left it
InSetPageBmap(t) ==
    \/ pc[t] \in {"pass", "oops"}
    \/ pc[t] \in {"emit", "cap_wait", "final_wait"} /\ loc[t].after = "pass"

\* t has encoded a batch and is about to leave fill_balloon / leak_balloon
BatchEnd(t) == pc[t] \in {"fill_unlock", "release"} /\ loc[t].batch # {}

\* C24: with chunks, page_bmaps is above one only while a batch is being
\* encoded: it is 1 at the end of every batch of fill_balloon and
\* leak_balloon, however many bitmaps set_page_bmap added and whether or
\* not an allocation of a bitmap failed, and it is never above
\* PAGE_BMAP_COUNT_MAX.
C24_BmapsTransient ==
    chunking =>
        /\ page_bmaps >= 1
        /\ page_bmaps <= PAGE_BMAP_COUNT_MAX
        /\ page_bmaps > 1 => \E t \in Threads : balloon_lock = t /\ InSetPageBmap(t)
        /\ \A t \in Threads : BatchEnd(t) => page_bmaps = 1

\* a grow batch that was encoded with PAGE_BMAP_COUNT_MAX bitmaps has ended
C24_Witness ==
    \E t \in Threads :
        /\ chunking
        /\ pc[t] = "fill_unlock"
        /\ loc[t].batch # {}
        /\ loc[t].wins = PAGE_BMAP_COUNT_MAX
        /\ page_bmaps = 1

----
(* Properties of the chunk buffers.                                        *)

\* C25: in every state the number of chunks in the balloon chunk buffer and
\* in the unused chunk buffer is between 0 and MAX_PAGE_CHUNKS, so that
\* add_one_chunk never writes a descriptor at an index >= MAX_PAGE_CHUNKS,
\* also after a submit at MAX_PAGE_CHUNKS failed.
C25_ChunksWithinBuffer ==
    /\ Len(balloon_page_chunk) <= MAX_PAGE_CHUNKS
    /\ Len(unused_page_chunk) <= MAX_PAGE_CHUNKS

\* Every chunk of the buffers submitted on queue q was recorded for q
SentOnOwnQueue(q) ==
    \A i \in 1 .. Len(vq_avail[q]) :
        \A j \in 1 .. Len(vq_avail[q][i].body) : vq_avail[q][i].body[j].q = q

\* C26: a chunk is transmitted only on the queue it was recorded for: the
\* chunks sent on the inflate queue describe pages that enter the balloon,
\* the chunks sent on the deflate queue pages that leave it; whenever
\* balloon_lock is free the balloon chunk buffer holds no chunk that was
\* not flushed.  This holds after any interleaving of grow, shrink and
\* migration.
C26_ChunkOnItsQueue ==
    /\ \A q \in Queues : SentOnOwnQueue(q)
    /\ balloon_lock = NoThread => balloon_page_chunk = <<>>

\* t is at the head of set_page_bmap's while loop and the pass it starts
\* finds pages of the list: it sets their bits and calls tell_host
PassUsesBitmaps(t) ==
    /\ chunking
    /\ pc[t] = "pass"
    /\ loc[t].start < pfn_max
    /\ PassPages(ListOf(t), loc[t].start, PassStop(loc[t].start)) # {}

\* C27: during the encoding of a batch every bitmap index that is used is
\* below page_bmaps, and page_bmaps <= PAGE_BMAP_COUNT_MAX: the index
\* set_page_bmap computes for the bit of a page, also of the page whose pfn
\* is the stop bound of the pass, and every index tell_host scans, also in
\* a pass that uses all the bitmaps.
C27_IndexBelowBmaps ==
    \A t \in Threads :
        PassUsesBitmaps(t) =>
            /\ page_bmaps <= PAGE_BMAP_COUNT_MAX
            /\ ~PassOutOfBounds(ListOf(t), loc[t].start, PassStop(loc[t].start))

----
(* Properties of the drain.                                                *)

\* remove_common is past its loop and its update_balloon_size: the device
\* is about to be reset
Drained == pc["remove"] = "removed"

\* A call of leak_balloon by remove_common dequeues its pages
DrainIteration == pc["remove"] = "leak_lock" /\ pc'["remove"] # "leak_lock"

\* C28: with a host that returns every buffer, the loop of remove_common
\* ends; when the device is reset the ledger is empty, num_pages is 0 and 0
\* is published as 'actual'; and every call of leak_balloon the loop makes
\* (num_pages is not 0) removes at least one page.
C28_DrainEnds ==
    /\ [](Drained => (pages = {} /\ isolated_pages = 0 /\ num_pages = 0 /\ actual = 0))
    /\ [][DrainIteration => Cardinality(pages') < Cardinality(pages)]_vars
    /\ (stop_update ~> Drained)

====
